---- MODULE Spec2Model ----
(***************************************************************************)
(* Server lifecycle and request pipeline of the vite-react-tailwind        *)
(* template (server/src/index.ts, server/src/app.ts), and the resolution of *)
(* its configuration from the environment (server/src/config/config.ts),   *)
(* and the interactive page of the client (client/src/pages/AppPage).      *)
(*                                                                         *)
(* The http.Server that index.ts creates is modelled by the fields of the  *)
(* variable httpServer and by the operators Listen and Close, which follow *)
(* what Node's net.Server does for the two calls index.ts makes:           *)
(*   listen(port, cb): throws ERR_SERVER_ALREADY_LISTEN when a handle is   *)
(*     bound; otherwise registers cb once for 'listening', binds, and      *)
(*     queues 'listening' (bind succeeded) or 'error' (bind failed) for    *)
(*     the next tick; 'listening' is emitted only if the handle is still   *)
(*     there; an 'error' event nobody listens to ends the process.         *)
(*   close(cb): registers cb once for 'close' (it is given                 *)
(*     ERR_SERVER_NOT_RUNNING when no handle is bound), releases the       *)
(*     handle, and queues 'close' as soon as no handle and no connection   *)
(*     is left.  close never throws.                                       *)
(* Node runs the next-tick queue to completion after every turn of the     *)
(* event loop, so signals, connections, 'close' and the calls of an        *)
(* importer, each a turn of its own, find the queue empty.                 *)
(***************************************************************************)
EXTENDS Integers, Sequences, FiniteSets, TLC

\* ------------------------------------------------------------------ bounds
MaxStarts == 2

MaxShutdowns == 2

MaxConn == 2

\* how far the clock of the request pipeline runs
MaxClock == 2

\* the longest environment value drawn from every string over Chars
MaxLen == 3

\* how often the interactive page is mounted, and clicked within a mount
MaxMounts == 2

MaxClicks == 2

\* ------------------------------------------------------------- vocabulary
Signals == {"SIGTERM", "SIGINT"}

\* strings a direct caller may hand to gracefulShutdown(signal: string)
DirectCauses == {"SIGTERM", "SIGINT", "test"}

\* process.argv[1]: undefined, or a string (a tuple of characters)
Str(t) == [defined |-> TRUE, s |-> t]

Undefined == [defined |-> FALSE, s |-> <<>>]

ArgvValues ==
  { Undefined,
    Str(<<"v", "i", "t", "e", "s", "t">>),
    Str(<<"/", "i", "n", "d", "e", "x", ".", "j", "s">>),
    Str(<<"i", "n", "d", "e">>) }

VARIABLES
  loaded,      \* index.ts has run its top level (line 128 included)
  alive,       \* the process is running
  argv1,       \* process.argv[1]
  httpServer,  \* the http.Server of line 46
  tickQueue,   \* events queued for the next tick, in order
  closeQueued, \* 'close' emissions queued
  handlers,    \* process.on listeners: signal -> the calls they make
  log,         \* console output: how often each line was written
  startCalls,  \* startServer calls so far
  shutdownFrom, \* the lifecycle state the latest gracefulShutdown call found
  lastCall,    \* the operation that produced this state
  now,         \* the wall clock (Date), in ticks
  uptime,      \* process.uptime(), in ticks
  req,         \* the request the app handled last
  res,         \* its response
  environ,     \* process.env: key -> undefined or a string
  config,      \* the object the config module exports, once loaded
  PORT,        \* the constant PORT of index.ts, once index.ts is evaluated
  strict,      \* the page is rendered inside <StrictMode> of a development build
  mounts,      \* how often the page has been mounted
  page,        \* the AppPage instance on screen: its state, or none
  pending,     \* fetches in flight: mount -> how many it still waits for
  seen         \* what the current mount has done: clicks, fetches, results

lifeVars == <<loaded, alive, argv1, httpServer, tickQueue, closeQueued,
              handlers, log, startCalls, shutdownFrom, lastCall>>

appVars == <<now, uptime, req, res>>

cfgVars == <<environ, config, PORT>>

clientVars == <<strict, mounts, page, pending, seen>>

vars == <<lifeVars, appVars, cfgVars, clientVars>>

\* ------------------------------------------------------------ console log
\* a line is identified by its text; the "closed" lines also carry the error
\* the close callback was handed, which the callback does not print
Line(l, a) == [line |-> l, arg |-> a]

ShutdownLine(signal) == Line("shutdown", signal)

ClosedLine(err) == Line("closed", err)

BannerLine == Line("banner", "")

Lines ==
  {ShutdownLine(s) : s \in DirectCauses}
    \cup {ClosedLine(e) : e \in {"", "ERR_SERVER_NOT_RUNNING"}}
    \cup {BannerLine}

RECURSIVE Sum(_, _)
Sum(f, S) ==
  IF S = {} THEN 0
  ELSE LET x == CHOOSE y \in S : TRUE IN f[x] + Sum(f, S \ {x})

\* how many lines of kind l the console holds
Count(out, l) == Sum(out, {x \in Lines : x.line = l})

\* console.log / console.info of line x, n times
Write(out, x, n) == [out EXCEPT ![x] = @ + n]

\* ------------------------------------------------------------ http.Server
\* the callbacks registered once for 'close', by the error they will be given
NoCbs == [e \in {"", "ERR_SERVER_NOT_RUNNING"} |-> 0]

NewServer ==
  [handle |-> FALSE, announced |-> FALSE, connections |-> 0,
   listeningCbs |-> 0, closeCbs |-> NoCbs,
   closeRequested |-> FALSE, closed |-> FALSE, binds |-> 0, fails |-> 0]

\* the lifecycle state of section 4.4, read off the server
State ==
  IF httpServer.handle /\ httpServer.announced THEN "LISTENING"
  ELSE IF httpServer.handle THEN "CREATED"
  ELSE IF httpServer.closed THEN "CLOSED"
  ELSE IF httpServer.closeRequested THEN "SHUTTING_DOWN"
  ELSE "CREATED"

Rank(s) ==
  CASE s = "CREATED" -> 0
    [] s = "LISTENING" -> 1
    [] s = "SHUTTING_DOWN" -> 2
    [] s = "CLOSED" -> 3

\* the program state the operators below transform
Prog == [srv |-> httpServer, ticks |-> tickQueue, closes |-> closeQueued,
         out |-> log, hs |-> handlers]

\* httpServer.listen(PORT, cb) on a server with no handle; ok: the bind succeeds
Listen(p, ok) ==
  [p EXCEPT
    !.srv = [@ EXCEPT !.listeningCbs = @ + 1,
                      !.handle = ok,
                      !.announced = FALSE,
                      !.closeRequested = FALSE,
                      !.closed = FALSE,
                      !.binds = IF ok THEN @ + 1 ELSE @,
                      !.fails = IF ok THEN @ ELSE @ + 1],
    !.ticks = Append(@, IF ok THEN "listening" ELSE "error")]

\* the callback of httpServer.listen: the startup banner, once per registration
EmitListening(p) ==
  IF p.srv.handle
  THEN [p EXCEPT !.out = Write(@, BannerLine, p.srv.listeningCbs),
                 !.srv = [@ EXCEPT !.listeningCbs = 0, !.announced = TRUE]]
  ELSE p

\* httpServer.close(cb)
Close(p) ==
  LET err == IF p.srv.handle THEN "" ELSE "ERR_SERVER_NOT_RUNNING"
      drained == p.srv.connections = 0
  IN [p EXCEPT
       !.srv = [@ EXCEPT !.closeCbs = [@ EXCEPT ![err] = @ + 1],
                         !.handle = FALSE,
                         !.announced = FALSE,
                         !.closeRequested = TRUE],
       !.closes = IF drained THEN @ + 1 ELSE @]

\* the callback of httpServer.close, run for every registration on 'close'
EmitClose(p) ==
  [p EXCEPT
    !.out = Write(Write(@, ClosedLine(""), p.srv.closeCbs[""]),
                  ClosedLine("ERR_SERVER_NOT_RUNNING"),
                  p.srv.closeCbs["ERR_SERVER_NOT_RUNNING"]),
    !.srv = [@ EXCEPT !.closeCbs = NoCbs, !.closed = ~p.srv.handle],
    !.closes = @ - 1]

\* ------------------------------------------------------------- index.ts
\* gracefulShutdown(signal)
gracefulShutdown(p, signal) ==
  Close([p EXCEPT !.out = Write(@, ShutdownLine(signal), 1)])

\* the arguments the two listeners of lines 102-103 pass on
SigtermHandler == "SIGTERM"

SigintHandlerSwapped == "SIGTERM"

SigintHandler == "SIGINT"

RegisterSigtermOnly(p) ==
  [p EXCEPT !.hs = [@ EXCEPT !["SIGTERM"] = Append(@, SigtermHandler)]]

\* process.on("SIGTERM", ...); process.on("SIGINT", ...)
RegisterHandlers(p) ==
  [p EXCEPT !.hs = [@ EXCEPT !["SIGTERM"] = Append(@, SigtermHandler),
                             !["SIGINT"] = Append(@, SigintHandler)]]

startServerBannerOutsideCallback(p, ok) ==
  RegisterHandlers(Listen([p EXCEPT !.out = Write(@, BannerLine, 1)], ok))

\* startServer() on a server with no handle
startServer(p, ok) == RegisterHandlers(Listen(p, ok))

\* process delivers sig: every listener registered for it runs, in order
RECURSIVE RunHandlers(_, _)
RunHandlers(p, hs) ==
  IF hs = <<>> THEN p
  ELSE RunHandlers(gracefulShutdown(p, Head(hs)), Tail(hs))

\* String.prototype.includes
Includes(s, sub) ==
  \E i \in 0..(Len(s) - Len(sub)) : SubSeq(s, i + 1, i + Len(sub)) = sub

isRunningAsMainStartsWith(a) ==
  IF a.defined
  THEN Len(a.s) >= 5 /\ SubSeq(a.s, 1, 5) = <<"i", "n", "d", "e", "x">>
  ELSE FALSE

\* isRunningAsMain()
isRunningAsMain(a) ==
  IF a.defined THEN Includes(a.s, <<"i", "n", "d", "e", "x">>) ELSE FALSE

\* ------------------------------------------------------------------ app.ts
\* config.server.clientUrl with VITE_DEV_PORT unset
CLIENT_URL == "http://localhost:5173"

Methods == {"GET", "HEAD", "POST", "OPTIONS"}

\* a request path: its segments, and whether it ends in a slash
Path(segs, slash) == [segs |-> segs, slash |-> slash]

Paths ==
  { Path(<<"health">>, FALSE), Path(<<"health">>, TRUE),
    Path(<<"HEALTH">>, FALSE), Path(<<"health", "x">>, FALSE),
    Path(<<"api", "health">>, FALSE), Path(<<"api", "health">>, TRUE),
    Path(<<"api", "health", "x">>, FALSE), Path(<<"api">>, FALSE),
    Path(<<"does-not-exist">>, FALSE), Path(<<>>, TRUE) }

Origins == {"none", CLIENT_URL, "http://evil.example"}

ContentTypes ==
  {"none", "application/json", "application/x-www-form-urlencoded",
   "text/plain"}

\* none: no body; malformed: a body the parser of its content type rejects
Bodies == {"none", "wellformed", "malformed"}

Requests ==
  [method : Methods, path : Paths, origin : Origins,
   contentType : ContentTypes, body : Bodies]

\* Date.prototype.toISOString and its inverse, Date.parse
toISOString(ms) == <<"ISO-8601", ms>>

InvalidDate == -1

DateParse(s) == IF s[1] = "ISO-8601" THEN s[2] ELSE InvalidDate

\* routing is case-insensitive
Lower(seg) == IF seg = "HEALTH" THEN "health" ELSE seg

LowerSegs(segs) == [i \in 1..Len(segs) |-> Lower(segs[i])]

\* a response under construction
NewResponse ==
  [status |-> 0, body |-> [kind |-> "empty"], headers |-> {},
   handler |-> "none", stages |-> <<>>, logged |-> <<>>, done |-> FALSE,
   parsed |-> FALSE, allowOrigin |-> "none"]

Stage(r, name) == [r EXCEPT !.stages = Append(@, name)]

End(r, status, body) ==
  [r EXCEPT !.status = status, !.body = body, !.done = TRUE]

\* app.use(helmet())
Helmet(q, r) ==
  [Stage(r, "helmet") EXCEPT
     !.headers = @ \cup {"Content-Security-Policy", "X-Content-Type-Options",
                          "X-Frame-Options", "Strict-Transport-Security"}]

\* a cross-origin stage that refuses a request of another origin
CorsRejectsOtherOrigins(q, r) ==
  IF q.origin \in {"none", CLIENT_URL}
  THEN Stage(r, "cors")
  ELSE End(Stage(r, "cors"), 403, [kind |-> "error"])

\* a cross-origin stage that sets no header
CorsWithoutHeaders(q, r) ==
  IF q.method = "OPTIONS"
  THEN End(Stage(r, "cors"), 204, [kind |-> "empty"])
  ELSE Stage(r, "cors")

\* app.use(cors({ origin: CLIENT_URL, credentials: true })): a fixed origin is
\* sent to every request; a preflight (OPTIONS) is answered 204 here
Cors(q, r) ==
  LET h == [Stage(r, "cors") EXCEPT
              !.headers = @ \cup {"Access-Control-Allow-Origin",
                                  "Access-Control-Allow-Credentials", "Vary"},
              !.allowOrigin = CLIENT_URL]
  IN IF q.method = "OPTIONS" THEN End(h, 204, [kind |-> "empty"]) ELSE h

\* app.use(compression())
Compression(q, r) == Stage(r, "compression")

\* a logger that answers the request itself
RequestLoggerAnswers(q, r, t) ==
  End([Stage(r, "requestLogger") EXCEPT
         !.logged = Append(@, [timestamp |-> toISOString(t),
                               method |-> q.method, url |-> q.path])],
      200, [kind |-> "empty"])

\* app.use(requestLogger)
RequestLogger(q, r, t) ==
  [Stage(r, "requestLogger") EXCEPT
     !.logged = Append(@, [timestamp |-> toISOString(t),
                           method |-> q.method, url |-> q.path])]

\* app.use(express.json()); app.use(express.urlencoded({ extended: true }))
ParsedTypes == {"application/json", "application/x-www-form-urlencoded"}

\* body parsers that let every body through
BodyParsersAcceptAll(q, r) ==
  IF q.body = "none" \/ q.contentType \notin ParsedTypes
  THEN Stage(r, "bodyParsers")
  ELSE [Stage(r, "bodyParsers") EXCEPT !.parsed = TRUE]

BodyParsers(q, r) ==
  LET s == Stage(r, "bodyParsers")
  IN IF q.body = "none" \/ q.contentType \notin ParsedTypes THEN s
     ELSE IF q.body = "malformed"
     THEN End(s, IF q.contentType = "application/json" THEN 400 ELSE 413,
              [kind |-> "error"])
     ELSE [s EXCEPT !.parsed = TRUE]

HealthRouteUnderApi == <<"api", "health">>

\* the path of app.get("/health", ...)
HealthRoute == <<"health">>

ApiHealthMountAtApi == <<"api">>

\* the mount path of app.use("/api/health", healthRouter)
ApiHealthMount == <<"api", "health">>

GetMatchesAnyMethod(q, route) == LowerSegs(q.path.segs) = route

\* app.get matches GET, and HEAD for want of a HEAD route
GetMatches(q, route) ==
  /\ q.method \in {"GET", "HEAD"}
  /\ LowerSegs(q.path.segs) = route

\* the handler of app.get("/health")
HealthHandler(r, t, up) ==
  End([r EXCEPT !.handler = "health"], 200,
      [kind |-> "json", status |-> "ok", timestamp |-> toISOString(t),
       uptime |-> up])

\* routes/health.ts: router.get("/") answers the health message
HealthRouterHandler(r, t) ==
  End([r EXCEPT !.handler = "apiHealth"], 200,
      [kind |-> "json", status |-> "ok", message |-> "Server is running",
       timestamp |-> toISOString(t)])

\* the routes, and Express' final handler: 404
Routes(q, r, t, up) ==
  LET s == Stage(r, "routes")
  IN IF GetMatches(q, HealthRoute) THEN HealthHandler(s, t, up)
     ELSE IF GetMatches(q, ApiHealthMount) THEN HealthRouterHandler(s, t)
     ELSE End(s, 404, [kind |-> "error"])

ThenRegardless(r, next) == next

\* a stage runs unless the response has ended
Then(r, next) == IF r.done THEN r ELSE next

\* the app of createApp(), handling request q at time t, uptime up
App(q, t, up) ==
  LET r1 == Helmet(q, NewResponse)
      r2 == Then(r1, Cors(q, r1))
      r3 == Then(r2, Compression(q, r2))
      r4 == Then(r3, RequestLogger(q, r3, t))
      r5 == Then(r4, BodyParsers(q, r4))
  IN Then(r5, Routes(q, r5, t, up))

NoRequest ==
  [method |-> "none", path |-> Path(<<>>, TRUE), origin |-> "none",
   contentType |-> "none", body |-> "none"]

\* --------------------------------------------------------------- config.ts
\* the characters the drawn environment values are made of
Chars == {"0", "7", "-", "+", " ", "x"}

RECURSIVE StringsUpTo(_)
StringsUpTo(n) ==
  IF n = 0 THEN {<<>>}
  ELSE LET shorter == StringsUpTo(n - 1)
       IN shorter \cup {Append(t, c) : t \in shorter, c \in Chars}

\* the values the tests assign, and the ends of the port range
NumberStrings ==
  { <<"4", "0", "0", "0">>,
    <<"5", "0", "0", "0">>,
    <<"n", "o", "t", "-", "a", "-", "n", "u", "m", "b", "e", "r">>,
    <<"6", "5", "5", "3", "5">>,
    <<"6", "5", "5", "3", "6">> }

Development == <<"d", "e", "v", "e", "l", "o", "p", "m", "e", "n", "t">>

Production == <<"p", "r", "o", "d", "u", "c", "t", "i", "o", "n">>

\* other NODE_ENV values: test, and production with a capital
NodeEnvStrings ==
  { Development, Production, <<"t", "e", "s", "t">>,
    <<"P", "r", "o", "d", "u", "c", "t", "i", "o", "n">> }

Info == <<"i", "n", "f", "o">>

LogLevelStrings == {Info, <<"d", "e", "b", "u", "g">>}

DefaultDevPort == <<"5", "1", "7", "3">>

DevPortStrings ==
  {DefaultDevPort, <<"5", "2", "0", "0">>, <<"0", "5", "2", "0", "0">>}

Keys == {"PORT", "REQUEST_TIMEOUT", "NODE_ENV", "VITE_DEV_PORT", "LOG_LEVEL"}

\* the strings the tests assign to a key, and others of their kind
AssignedStrings(k) ==
  CASE k = "NODE_ENV" -> NodeEnvStrings
    [] k = "VITE_DEV_PORT" -> DevPortStrings
    [] k = "LOG_LEVEL" -> LogLevelStrings
    [] OTHER -> NumberStrings

\* the values of a key: not set, a string the tests assign, or any string
\* over Chars
AssignedValues(k) == {Undefined} \cup {Str(t) : t \in AssignedStrings(k)}

DrawnValues == {Str(t) : t \in StringsUpTo(MaxLen)}

\* an environment with none of the keys set
NoEnv == [k \in Keys |-> Undefined]

\* the environment with every key set as the tests set it
TestEnv ==
  [k \in Keys |->
     CASE k = "PORT" -> Str(<<"4", "0", "0", "0">>)
       [] k = "REQUEST_TIMEOUT" -> Str(<<"5", "0", "0", "0">>)
       [] k = "NODE_ENV" -> Str(Production)
       [] k = "VITE_DEV_PORT" -> Str(<<"5", "2", "0", "0">>)
       [] k = "LOG_LEVEL" -> Str(<<"d", "e", "b", "u", "g">>)]

\* one key holds any of its values, the others are all unset or all set as
\* the tests set them
Environments ==
  { [base EXCEPT ![k] = v] :
      <<base, k, v>> \in
        UNION { {<<b, key, w>> : w \in DrawnValues \cup AssignedValues(key)} :
                  <<b, key>> \in {NoEnv, TestEnv} \X Keys } }

\* a Number: NaN, or an integer
NaN == [nan |-> TRUE, n |-> 0]

Num(n) == [nan |-> FALSE, n |-> n]

WhiteSpace == {" "}

Digits == {"0", "1", "2", "3", "4", "5", "6", "7", "8", "9"}

DigitValue(c) ==
  CASE c = "0" -> 0 [] c = "1" -> 1 [] c = "2" -> 2 [] c = "3" -> 3
    [] c = "4" -> 4 [] c = "5" -> 5 [] c = "6" -> 6 [] c = "7" -> 7
    [] c = "8" -> 8 [] c = "9" -> 9

RECURSIVE SkipWhiteSpace(_)
SkipWhiteSpace(s) ==
  IF s # <<>> /\ Head(s) \in WhiteSpace THEN SkipWhiteSpace(Tail(s)) ELSE s

\* the longest prefix of s made of digits
RECURSIVE DigitPrefix(_)
DigitPrefix(s) ==
  IF s # <<>> /\ Head(s) \in Digits
  THEN <<Head(s)>> \o DigitPrefix(Tail(s))
  ELSE <<>>

RECURSIVE DecimalValue(_)
DecimalValue(ds) ==
  IF ds = <<>> THEN 0
  ELSE 10 * DecimalValue(SubSeq(ds, 1, Len(ds) - 1)) + DigitValue(ds[Len(ds)])

\* parseInt(value, 10): leading white space is skipped, a sign is taken, the
\* digits that follow are the number and whatever comes after them is
\* ignored; NaN when no digit follows
parseInt(s) ==
  LET t == SkipWhiteSpace(s)
      signed == t # <<>> /\ Head(t) \in {"+", "-"}
      ds == DigitPrefix(IF signed THEN Tail(t) ELSE t)
  IN IF ds = <<>> THEN NaN
     ELSE IF signed /\ Head(t) = "-" THEN Num(-DecimalValue(ds))
     ELSE Num(DecimalValue(ds))

\* an env that never reads the environment
envDefaultOnly(e, key, defaultValue) == defaultValue

\* an env that hands out an empty value as it is
envKeepsEmpty(e, key, defaultValue) ==
  IF e[key].defined THEN e[key].s ELSE defaultValue

\* env(key, defaultValue) in the environment e: process.env[key] ||
\* defaultValue, the default standing in for undefined and for ""
env(e, key, defaultValue) ==
  IF e[key].defined /\ e[key].s # <<>> THEN e[key].s ELSE defaultValue

\* an envNumber that never reads the environment
envNumberDefaultOnly(e, key, defaultValue) == defaultValue

\* envNumber(key, defaultValue) in the environment e
envNumber(e, key, defaultValue) ==
  IF ~e[key].defined THEN defaultValue
  ELSE LET parsed == parseInt(e[key].s)
       IN IF parsed.nan THEN defaultValue ELSE parsed.n

DefaultPort == 3000

DefaultRequestTimeout == 30000

\* "http://localhost:"
LocalhostPrefix ==
  <<"h", "t", "t", "p", ":", "/", "/",
    "l", "o", "c", "a", "l", "h", "o", "s", "t", ":">>

\* serverConfig, evaluated in the environment e
serverConfig(e) ==
  [loaded |-> TRUE,
   port |-> envNumber(e, "PORT", DefaultPort),
   nodeEnv |-> env(e, "NODE_ENV", Development),
   isDev |-> env(e, "NODE_ENV", Development) = Development,
   isProd |-> env(e, "NODE_ENV", Development) = Production,
   clientUrl |-> LocalhostPrefix \o env(e, "VITE_DEV_PORT", DefaultDevPort),
   logLevel |-> env(e, "LOG_LEVEL", Info),
   requestTimeout |-> envNumber(e, "REQUEST_TIMEOUT", DefaultRequestTimeout)]

\* the config module has not been evaluated
NotLoaded ==
  [loaded |-> FALSE, port |-> 0, nodeEnv |-> <<>>, isDev |-> FALSE,
   isProd |-> FALSE, clientUrl |-> <<>>, logLevel |-> <<>>,
   requestTimeout |-> 0]

\* const PORT = config.server.port: not evaluated yet, or the value it took
NotEvaluated == [set |-> FALSE, n |-> 0]

Evaluated(n) == [set |-> TRUE, n |-> n]

\* index.ts and app.ts import the config: it is resolved before they run,
\* here with none of the keys set
ConfigImported ==
  /\ environ = NoEnv
  /\ config = serverConfig(NoEnv)
  /\ PORT = Evaluated(serverConfig(NoEnv).port)

\* ----------------------------------------------------------- vite.config.ts
HexDigits ==
  Digits \cup {"a", "b", "c", "d", "e", "f", "A", "B", "C", "D", "E", "F"}

HexDigitValue(c) ==
  IF c \in Digits THEN DigitValue(c)
  ELSE CASE c \in {"a", "A"} -> 10 [] c \in {"b", "B"} -> 11
         [] c \in {"c", "C"} -> 12 [] c \in {"d", "D"} -> 13
         [] c \in {"e", "E"} -> 14 [] c \in {"f", "F"} -> 15

RECURSIVE HexValue(_)
HexValue(ds) ==
  IF ds = <<>> THEN 0
  ELSE 16 * HexValue(SubSeq(ds, 1, Len(ds) - 1)) + HexDigitValue(ds[Len(ds)])

RECURSIVE TrimRight(_)
TrimRight(s) ==
  IF s # <<>> /\ s[Len(s)] \in WhiteSpace
  THEN TrimRight(SubSeq(s, 1, Len(s) - 1))
  ELSE s

AllIn(s, S) == \A i \in 1..Len(s) : s[i] \in S

\* Number(value): white space is trimmed at both ends; what is left is 0 when
\* empty, a hexadecimal integer after 0x, a decimal integer with an optional
\* sign, and NaN otherwise: nothing may follow the digits.  (Fractions and
\* exponents are not among the strings drawn.)
Number(s) ==
  LET t == TrimRight(SkipWhiteSpace(s))
      signed == t # <<>> /\ Head(t) \in {"+", "-"}
      ds == IF signed THEN Tail(t) ELSE t
  IN IF t = <<>> THEN Num(0)
     ELSE IF /\ Len(t) >= 3
             /\ t[1] = "0"
             /\ t[2] \in {"x", "X"}
             /\ AllIn(SubSeq(t, 3, Len(t)), HexDigits)
     THEN Num(HexValue(SubSeq(t, 3, Len(t))))
     ELSE IF ds # <<>> /\ AllIn(ds, Digits)
     THEN IF Head(t) = "-" THEN Num(-DecimalValue(ds)) ELSE Num(DecimalValue(ds))
     ELSE NaN

DigitChar(d) ==
  CASE d = 0 -> "0" [] d = 1 -> "1" [] d = 2 -> "2" [] d = 3 -> "3"
    [] d = 4 -> "4" [] d = 5 -> "5" [] d = 6 -> "6" [] d = 7 -> "7"
    [] d = 8 -> "8" [] d = 9 -> "9"

RECURSIVE NatString(_)
NatString(n) ==
  IF n < 10 THEN <<DigitChar(n)>>
  ELSE Append(NatString(n \div 10), DigitChar(n % 10))

\* a number inside a template literal
NumberToString(v) ==
  IF v.nan THEN <<"N", "a", "N">>
  ELSE IF v.n < 0 THEN <<"-">> \o NatString(-v.n)
  ELSE NatString(v.n)

ViteDefaultDevPort == 5173

\* devPort of the Vite config, evaluated in the environment e
devPort(e) ==
  IF e["VITE_DEV_PORT"].defined /\ e["VITE_DEV_PORT"].s # <<>>
  THEN Number(e["VITE_DEV_PORT"].s)
  ELSE Num(ViteDefaultDevPort)

\* the origin the dev server is reached at: server.port is devPort
ViteOrigin(e) == LocalhostPrefix \o NumberToString(devPort(e))

\* -------------------------------------------------------------- AppPage.tsx
\* a JavaScript value as the page holds it in `message`: a string, undefined
\* (a field that is not there), a number (s its decimal text) or an object
JsString(s) == [kind |-> "string", s |-> s]

JsUndefined == [kind |-> "undefined", s |-> ""]

JsNumber(s) == [kind |-> "number", s |-> s]

JsObject == [kind |-> "object", s |-> ""]

\* what data.message may be
MessageValues ==
  { JsString("Server is running"), JsString("Server OK"), JsString(""),
    JsUndefined, JsNumber("0"), JsNumber("5"), JsObject }

\* the JSON value res.json() resolves to: null, or a value whose message
\* field reads as m
JsonNull == [isNull |-> TRUE, message |-> JsUndefined]

JsonValue(m) == [isNull |-> FALSE, message |-> m]

\* how a fetch ends: rejected (network error), fulfilled with a body that is
\* not JSON, or fulfilled with a JSON body
NetworkError == [kind |-> "networkError", data |-> JsonNull]

NotJson == [kind |-> "notJson", data |-> JsonNull]

Json(d) == [kind |-> "json", data |-> d]

Outcomes ==
  {NetworkError, NotJson, Json(JsonNull)}
    \cup {Json(JsonValue(m)) : m \in MessageValues}

NoOutcome == [kind |-> "none", data |-> JsonNull]

Fallback == JsString("Server not connected")

\* the value the promise chain of the effect hands to setMessage: .catch
\* takes a rejected fetch, a rejected res.json() and the TypeError of
\* reading .message of null
Chain(o) ==
  IF o.kind \in {"networkError", "notJson"} THEN Fallback
  ELSE IF o.data.isNull THEN Fallback
  ELSE o.data.message

Truthy(m) ==
  CASE m.kind = "string" -> m.s # ""
    [] m.kind = "number" -> m.s # "0"
    [] m.kind = "object" -> TRUE
    [] OTHER -> FALSE

\* {message || "Loading..."}
StatusChild(m) == IF Truthy(m) THEN m ELSE JsString("Loading...")

\* React cannot render an object as a child: the render throws
RenderThrows(m) == StatusChild(m).kind = "object"

IncrementTwice(c) == c + 2

\* (c) => c + 1
Increment(c) == c + 1

EffectAfterEveryRender(firstRender) == TRUE

\* useEffect(..., []): the effect runs after the first render of a mount only
EffectAfterRender(firstRender) == firstRender

\* how often the effect runs when the page mounts: StrictMode mounts,
\* unmounts and mounts again the effects of a new component
EffectsOnMount(s) == IF s THEN 2 ELSE 1

NoPage ==
  [mounted |-> FALSE, count |-> 0, message |-> JsString(""),
   crashed |-> FALSE]

\* useState(0), useState("")
NewPage ==
  [mounted |-> TRUE, count |-> 0, message |-> JsString(""),
   crashed |-> FALSE]

Fresh == [clicks |-> 0, issued |-> 0, settled |-> 0, last |-> NoOutcome]

\* the client is loaded and shows another page
ClientIdle ==
  /\ strict = FALSE
  /\ mounts = 0
  /\ page = NoPage
  /\ pending = [m \in 1..MaxMounts |-> 0]
  /\ seen = Fresh

\* ---------------------------------------------------------------- actions
Call(op, arg, result) == [op |-> op, arg |-> arg, result |-> result]

Store(p) ==
  /\ UNCHANGED <<appVars, cfgVars, clientVars>>
  /\ httpServer' = p.srv
  /\ tickQueue' = p.ticks
  /\ closeQueued' = p.closes
  /\ log' = p.out
  /\ handlers' = p.hs

\* the outcome of a step that did not call gracefulShutdown
Commit(p) == Store(p) /\ shutdownFrom' = shutdownFrom

\* the outcome of a step that called gracefulShutdown
CommitShutdown(p) == Store(p) /\ shutdownFrom' = State

ShutdownCalls == Count(log, "shutdown")

LifeInit ==
  /\ loaded = FALSE
  /\ alive = TRUE
  /\ argv1 \in ArgvValues
  /\ httpServer = NewServer
  /\ tickQueue = <<>>
  /\ closeQueued = 0
  /\ handlers = [s \in Signals |-> <<>>]
  /\ log = [x \in Lines |-> 0]
  /\ startCalls = 0
  /\ shutdownFrom = ""
  /\ lastCall = Call("none", "", "void")

\* index.ts loaded: the app is created and has handled nothing
Init ==
  /\ LifeInit
  /\ now = 0
  /\ uptime = 0
  /\ req = NoRequest
  /\ res = NewResponse
  /\ ConfigImported
  /\ ClientIdle

\* the body of startServer as a step; listen throws when a handle is bound
StartServerStep(op, arg, okResult) ==
  /\ startCalls < MaxStarts
  /\ startCalls' = startCalls + 1
  /\ IF httpServer.handle
     THEN /\ Commit(Prog)
          /\ lastCall' = Call(op, arg, "threw")
     ELSE \E ok \in BOOLEAN :
            /\ Commit(startServer(Prog, ok))
            /\ lastCall' = Call(op, arg, okResult)

\* initIfMain()
InitIfMainStep(arg) ==
  IF isRunningAsMain(argv1)
  THEN StartServerStep("initIfMain", arg, "true")
  ELSE /\ Commit(Prog)
       /\ startCalls' = startCalls
       /\ lastCall' = Call("initIfMain", arg, "false")

\* the module's top level: line 128
LoadModule ==
  /\ alive /\ ~loaded
  /\ loaded' = TRUE
  /\ InitIfMainStep("load")
  /\ UNCHANGED <<alive, argv1>>

\* an importer calls the exported initIfMain()
InitIfMain ==
  /\ alive /\ loaded
  /\ tickQueue = <<>>
  /\ InitIfMainStep("call")
  /\ UNCHANGED <<loaded, alive, argv1>>

\* an importer calls the exported startServer()
StartServer ==
  /\ alive /\ loaded
  /\ tickQueue = <<>>
  /\ StartServerStep("startServer", "", "void")
  /\ UNCHANGED <<loaded, alive, argv1>>

\* an importer calls the exported gracefulShutdown(signal)
GracefulShutdown ==
  /\ alive /\ loaded
  /\ tickQueue = <<>>
  /\ ShutdownCalls < MaxShutdowns
  /\ \E s \in DirectCauses :
       /\ CommitShutdown(gracefulShutdown(Prog, s))
       /\ lastCall' = Call("gracefulShutdown", s, "void")
  /\ UNCHANGED <<loaded, alive, argv1, startCalls>>

\* the process receives SIGTERM or SIGINT; with no listener it is terminated
Signal ==
  /\ alive /\ loaded
  /\ tickQueue = <<>>
  /\ \E sig \in Signals :
       /\ ShutdownCalls < MaxShutdowns
       /\ IF handlers[sig] # <<>>
          THEN CommitShutdown(RunHandlers(Prog, handlers[sig]))
          ELSE Commit(Prog)
       /\ alive' = (handlers[sig] # <<>>)
       /\ lastCall' = Call("signal", sig,
                           IF handlers[sig] # <<>> THEN "void" ELSE "killed")
  /\ UNCHANGED <<loaded, argv1, startCalls>>

\* the next queued event is emitted
RunTick ==
  /\ alive /\ tickQueue # <<>>
  /\ LET p == [Prog EXCEPT !.ticks = Tail(@)]
     IN IF Head(tickQueue) = "listening"
        THEN /\ Commit(EmitListening(p))
             /\ alive' = alive
             /\ lastCall' = Call("tick", "listening", "void")
        ELSE /\ Commit(p)
             /\ alive' = FALSE
             /\ lastCall' = Call("tick", "error", "crashed")
  /\ UNCHANGED <<loaded, argv1, startCalls>>

\* a queued 'close' is emitted
CloseEvent ==
  /\ alive /\ closeQueued > 0
  /\ tickQueue = <<>>
  /\ Commit(EmitClose(Prog))
  /\ lastCall' = Call("close", "", "void")
  /\ UNCHANGED <<loaded, alive, argv1, startCalls>>

\* a client connects and sends a request
Accept ==
  /\ alive /\ tickQueue = <<>>
  /\ httpServer.handle /\ httpServer.announced
  /\ httpServer.connections < MaxConn
  /\ Commit([Prog EXCEPT !.srv.connections = @ + 1])
  /\ lastCall' = Call("accept", "", "void")
  /\ UNCHANGED <<loaded, alive, argv1, startCalls>>

\* a response is flushed and its connection ends
CompleteRequest ==
  /\ alive /\ tickQueue = <<>>
  /\ httpServer.connections > 0
  /\ LET drained == ~httpServer.handle /\ httpServer.connections = 1
     IN Commit([Prog EXCEPT !.srv.connections = @ - 1,
                            !.closes = IF drained THEN @ + 1 ELSE @])
  /\ lastCall' = Call("complete", "", "void")
  /\ UNCHANGED <<loaded, alive, argv1, startCalls>>

\* a test assigns process.argv[1]
SetArgv ==
  /\ alive /\ loaded
  /\ tickQueue = <<>>
  /\ \E a \in ArgvValues : a # argv1 /\ argv1' = a
  /\ Commit(Prog)
  /\ lastCall' = Call("setArgv", "", "void")
  /\ UNCHANGED <<loaded, alive, startCalls>>

Next ==
  \/ LoadModule
  \/ InitIfMain
  \/ StartServer
  \/ GracefulShutdown
  \/ Signal
  \/ RunTick
  \/ CloseEvent
  \/ Accept
  \/ CompleteRequest
  \/ SetArgv

Spec == Init /\ [][Next]_vars

\* The event loop runs what is queued, and every in-flight request completes.
LiveSpec ==
  /\ Spec
  /\ WF_vars(RunTick)
  /\ WF_vars(CloseEvent)
  /\ WF_vars(CompleteRequest)

\* The app alone, as supertest drives it: a request arrives at some time and
\* the app handles it.
AppRequest ==
  /\ ~res.done
  /\ res' = App(req, now, uptime)
  /\ UNCHANGED <<now, uptime, req, lifeVars, cfgVars, clientVars>>

AppTick ==
  /\ now < MaxClock
  /\ now' = now + 1
  /\ uptime' = uptime + 1
  /\ UNCHANGED <<req, res, lifeVars, cfgVars, clientVars>>

AppInit ==
  /\ LifeInit
  /\ argv1 = Undefined
  /\ now = 0
  /\ uptime = 0
  /\ req \in Requests
  /\ res = NewResponse
  /\ ConfigImported
  /\ ClientIdle

AppNext ==
  \/ AppRequest
  \/ AppTick

AppSpec == AppInit /\ [][AppNext]_vars

\* The config module alone, as its tests drive it: the environment is set,
\* the module is imported, and vi.resetModules() makes the next import
\* evaluate it again.
ImportConfig ==
  /\ ~config.loaded
  /\ config' = serverConfig(environ)
  /\ UNCHANGED <<environ, PORT, lifeVars, appVars, clientVars>>

ResetModules ==
  /\ config.loaded
  /\ config' = NotLoaded
  /\ PORT' = NotEvaluated
  /\ UNCHANGED <<environ, lifeVars, appVars, clientVars>>

ConfigInit ==
  /\ LifeInit
  /\ argv1 = Undefined
  /\ now = 0
  /\ uptime = 0
  /\ req = NoRequest
  /\ res = NewResponse
  /\ environ \in Environments
  /\ config = NotLoaded
  /\ PORT = NotEvaluated
  /\ ClientIdle

ConfigNext ==
  \/ ImportConfig
  \/ ResetModules

ConfigSpec == ConfigInit /\ [][ConfigNext]_vars

\* The environment changing under a loaded config: the tests assign a key
\* (a string: the value they use, or the empty string) before or after the
\* modules are imported.  dotenv, run by every evaluation of the config
\* module, leaves keys that are set alone, and environ is the environment
\* it has left.
SetEnvReresolves ==
  /\ \E k \in Keys : \E v \in {TestEnv[k], Str(<<>>)} :
       /\ v # environ[k]
       /\ environ' = [environ EXCEPT ![k] = v]
  /\ config' = IF config.loaded THEN serverConfig(environ') ELSE config
  /\ UNCHANGED <<PORT, lifeVars, appVars, clientVars>>

\* process.env.KEY = "..."
SetEnv ==
  /\ \E k \in Keys : \E v \in {TestEnv[k], Str(<<>>)} :
       /\ v # environ[k]
       /\ environ' = [environ EXCEPT ![k] = v]
  /\ UNCHANGED <<config, PORT, lifeVars, appVars, clientVars>>

\* index.ts is imported: it imports the config module, evaluated now unless
\* it was before, and takes PORT from it
ImportIndex ==
  /\ ~PORT.set
  /\ config' = IF config.loaded THEN config ELSE serverConfig(environ)
  /\ PORT' = Evaluated(config'.port)
  /\ UNCHANGED <<environ, lifeVars, appVars, clientVars>>

EnvChangeInit ==
  /\ LifeInit
  /\ argv1 = Undefined
  /\ now = 0
  /\ uptime = 0
  /\ req = NoRequest
  /\ res = NewResponse
  /\ environ \in {NoEnv, TestEnv}
  /\ config = NotLoaded
  /\ PORT = NotEvaluated
  /\ ClientIdle

EnvChangeNext ==
  \/ SetEnv
  \/ ImportConfig
  \/ ImportIndex
  \/ ResetModules

EnvChangeSpec == EnvChangeInit /\ [][EnvChangeNext]_vars

\* The interactive page, as a user drives it: navigate to /app (the page
\* mounts), click Increment, navigate away (it unmounts), while the fetches
\* it has issued settle in any order.
Mount ==
  /\ ~page.mounted /\ ~page.crashed
  /\ mounts < MaxMounts
  /\ mounts' = mounts + 1
  /\ page' = NewPage
  /\ pending' = [pending EXCEPT ![mounts'] = EffectsOnMount(strict)]
  /\ seen' = [Fresh EXCEPT !.issued = EffectsOnMount(strict)]
  /\ UNCHANGED <<strict, lifeVars, appVars, cfgVars>>

\* a re-render of the mounted page, and the effect if it runs after it
Rerender(p, did) ==
  LET again == IF EffectAfterRender(FALSE) THEN 1 ELSE 0
  IN /\ page' = p
     /\ pending' = [pending EXCEPT ![mounts] = @ + again - did.settles]
     /\ seen' = [seen EXCEPT !.clicks = @ + did.clicks,
                             !.settled = @ + did.settles,
                             !.last = did.last,
                             !.issued = @ + again]

Click ==
  /\ page.mounted
  /\ seen.clicks < MaxClicks
  /\ Rerender([page EXCEPT !.count = Increment(@)],
              [clicks |-> 1, settles |-> 0, last |-> seen.last])
  /\ UNCHANGED <<strict, mounts, lifeVars, appVars, cfgVars>>

\* a fetch of mount m settles with outcome o: setMessage acts on the
\* instance that issued it, and on nothing once that one is gone
Settle ==
  /\ \E m \in 1..MaxMounts : \E o \in Outcomes :
       /\ pending[m] > 0
       /\ IF m = mounts /\ page.mounted
          THEN IF RenderThrows(Chain(o))
               THEN /\ page' = [NoPage EXCEPT !.crashed = TRUE]
                    /\ pending' = [pending EXCEPT ![m] = @ - 1]
                    /\ seen' = [seen EXCEPT !.settled = @ + 1, !.last = o]
               ELSE Rerender([page EXCEPT !.message = Chain(o)],
                             [clicks |-> 0, settles |-> 1, last |-> o])
          ELSE /\ pending' = [pending EXCEPT ![m] = @ - 1]
               /\ UNCHANGED <<page, seen>>
  /\ UNCHANGED <<strict, mounts, lifeVars, appVars, cfgVars>>

Unmount ==
  /\ page.mounted
  /\ page' = NoPage
  /\ seen' = Fresh
  /\ UNCHANGED <<strict, mounts, pending, lifeVars, appVars, cfgVars>>

ClientInit ==
  /\ LifeInit
  /\ argv1 = Undefined
  /\ now = 0
  /\ uptime = 0
  /\ req = NoRequest
  /\ res = NewResponse
  /\ ConfigImported
  /\ strict \in BOOLEAN
  /\ mounts = 0
  /\ page = NoPage
  /\ pending = [m \in 1..MaxMounts |-> 0]
  /\ seen = Fresh

ClientNext ==
  \/ Mount
  \/ Click
  \/ Settle
  \/ Unmount

ClientSpec == ClientInit /\ [][ClientNext]_vars

\* ------------------------------------------------------------------ claims
Banners == Count(log, "banner")

ClosedLines == Count(log, "closed")

ShutdownOps == {"signal", "gracefulShutdown"}

\* one lifecycle: startServer was called once and the server reached LISTENING
OneLifecycle == startCalls = 1 /\ Banners = 1

\* C1: shutdown is idempotent: in one lifecycle no shutdown trigger raises
\* and the "[Server] HTTP server closed" line is written at most once.
C1_ShutdownIdempotent ==
  OneLifecycle =>
    /\ ClosedLines <= 1
    /\ (lastCall.op \in ShutdownOps => lastCall.result # "threw")

\* C2: SHUTTING_DOWN is entered once per lifecycle: after the first trigger
\* no further "<signal> received" line is written (and, since every such
\* line is followed by httpServer.close, no further close is requested).
C2_ShutdownEnteredOnce == OneLifecycle => ShutdownCalls <= 1

\* C3: the lifecycle of a server that has been LISTENING only moves forward
\* along CREATED -> LISTENING -> SHUTTING_DOWN -> CLOSED, and CLOSED is
\* terminal.
C3_ForwardOnly ==
  [][Banners >= 1 =>
       /\ Rank(State') >= Rank(State)
       /\ (State = "CLOSED" => State' = "CLOSED")]_vars

\* C4: the signal handlers are registered only once the server has entered
\* LISTENING (the banner is out), and no signal triggers the shutdown while
\* the server is still CREATED.
C4_HandlersFromListening ==
  /\ \A sig \in Signals : handlers[sig] # <<>> => Banners >= 1
  /\ (lastCall.op = "signal" /\ lastCall.result = "void"
        => shutdownFrom # "CREATED")

\* C4 as amended: startServer registers one handler per signal for every
\* listen it requests, bind completed or not, and a signal triggers the
\* shutdown only after startServer has been called.
C4_HandlersFromStartServer ==
  /\ \A sig \in Signals :
       Len(handlers[sig]) = httpServer.binds + httpServer.fails
  /\ (lastCall.op = "signal" /\ lastCall.result = "void" => startCalls >= 1)

\* a signal was delivered to the handlers startServer registered, and ran them
C4_Witness ==
  /\ lastCall.op = "signal" /\ lastCall.result = "void"
  /\ startCalls >= 1
  /\ ShutdownCalls >= 1

\* C5: drain barrier: once the shutdown of a LISTENING server has started no
\* connection is accepted and the closed line is written only when no
\* connection remains open; a shutdown trigger ends no connection.
C5_DrainBarrier ==
  [][/\ (shutdownFrom = "LISTENING" =>
           /\ httpServer'.connections <= httpServer.connections
           /\ (Count(log', "closed") > ClosedLines
                 => httpServer'.connections = 0))
     /\ (lastCall'.op \in ShutdownOps
          => httpServer'.connections = httpServer.connections)]_vars

\* C6: after a termination signal is delivered to a LISTENING server, with
\* every in-flight request completing, the server eventually is CLOSED
\* (unless the process has ended before).
C6_EventuallyClosed ==
  (lastCall.op = "signal" /\ shutdownFrom = "LISTENING")
    ~> (State = "CLOSED" \/ ~alive)

\* C7: the shutdown line names its cause: a signal writes only lines naming
\* that signal, one per registered handler, and gracefulShutdown(s) writes
\* exactly one line naming s.
C7_CauseNamed ==
  [][/\ (lastCall'.op = "signal"
          => \A s \in DirectCauses :
               log'[ShutdownLine(s)] - log[ShutdownLine(s)] =
                 IF s = lastCall'.arg THEN Len(handlers[s]) ELSE 0)
     /\ (lastCall'.op = "gracefulShutdown"
          => \A s \in DirectCauses :
               log'[ShutdownLine(s)] - log[ShutdownLine(s)] =
                 IF s = lastCall'.arg THEN 1 ELSE 0)]_vars

\* SIGINT was delivered and its handler reported SIGINT
C7_Witness ==
  /\ lastCall.op = "signal" /\ lastCall.arg = "SIGINT"
  /\ log[ShutdownLine("SIGINT")] >= 1

\* process.argv[1] is defined and holds the characters i n d e x in a row
HasIndex(a) ==
  /\ a.defined
  /\ \E i \in 1..Len(a.s) :
       /\ i + 4 <= Len(a.s)
       /\ a.s[i] = "i" /\ a.s[i + 1] = "n" /\ a.s[i + 2] = "d"
       /\ a.s[i + 3] = "e" /\ a.s[i + 4] = "x"

C9_BannerOnlyAfterBind ==
  /\ [](/\ Banners <= httpServer.binds
        /\ httpServer.binds + httpServer.fails <= startCalls
        /\ (httpServer.fails >= 1 => State # "LISTENING"))
  /\ [][/\ (httpServer.fails >= 1 => Count(log', "banner") = Banners)
        /\ (httpServer'.binds + httpServer'.fails
              # httpServer.binds + httpServer.fails
             => /\ lastCall'.op \in {"startServer", "initIfMain"}
                /\ httpServer'.binds + httpServer'.fails
                     = httpServer.binds + httpServer.fails + 1)]_vars

\* a bind failed after an earlier bind had succeeded and was announced
C9_Witness ==
  /\ httpServer.fails = 1 /\ httpServer.binds = 1 /\ Banners = 1
  /\ ~alive

\* the request is GET /health, as written
IsGetHealth(q) == q.method = "GET" /\ q.path = Path(<<"health">>, FALSE)

HealthOk(r) ==
  /\ r.status = 200
  /\ r.body.kind = "json"
  /\ r.body.status = "ok"
  /\ DateParse(r.body.timestamp) # InvalidDate
  /\ r.body.uptime >= 0

\* C10: every GET /health request, whatever its other headers and body, is
\* answered 200 with status "ok", a valid timestamp and an uptime >= 0.
C10_HealthAlwaysOk == res.done /\ IsGetHealth(req) => HealthOk(res)

\* the body-parsing stage rejects the request
RejectedBody(q) == q.contentType \in ParsedTypes /\ q.body = "malformed"

\* C10 as amended: every GET /health request that the body-parsing stage does
\* not reject is answered 200 by the /health handler with status "ok", a
\* valid timestamp and an uptime >= 0, whatever its Origin and with no /api
\* prefix; one that it rejects is answered 4xx and reaches no handler.
C10_HealthOkUnlessBodyRejected ==
  res.done /\ IsGetHealth(req) =>
    IF RejectedBody(req)
    THEN res.status \in 400..499 /\ res.handler = "none"
    ELSE HealthOk(res) /\ res.handler = "health"

\* GET /health from a foreign origin, with a JSON body, was answered 200
C10_Witness ==
  /\ IsGetHealth(req)
  /\ req.origin = "http://evil.example"
  /\ req.contentType = "application/json" /\ req.body = "wellformed"
  /\ res.status = 200
  /\ res.body.uptime = 1

\* the request is GET /api/health, as written
IsGetApiHealth(q) ==
  q.method = "GET" /\ q.path = Path(<<"api", "health">>, FALSE)

ApiHealthOk(r) ==
  /\ r.status = 200
  /\ r.body.kind = "json"
  /\ r.body.status = "ok"
  /\ r.body.message = "Server is running"
  /\ DateParse(r.body.timestamp) # InvalidDate

\* C11: every GET /api/health request is answered 200 with status "ok", the
\* message "Server is running" and a valid timestamp.
C11_ApiHealthAlwaysOk == res.done /\ IsGetApiHealth(req) => ApiHealthOk(res)

\* C11 as amended: every GET /api/health request that the body-parsing stage
\* does not reject is answered 200 by the health router with status "ok", the
\* message "Server is running" and a valid timestamp; one that it rejects is
\* answered 4xx and reaches no handler.
C11_ApiHealthOkUnlessBodyRejected ==
  res.done /\ IsGetApiHealth(req) =>
    IF RejectedBody(req)
    THEN res.status \in 400..499 /\ res.handler = "none"
    ELSE ApiHealthOk(res) /\ res.handler = "apiHealth"

\* GET /api/health from the client's origin, with no body, was answered 200
C11_Witness ==
  /\ IsGetApiHealth(req)
  /\ req.origin = CLIENT_URL
  /\ req.body = "none"
  /\ res.done /\ res.handler = "apiHealth"
  /\ res.status = 200

\* the request is one of the two routes, as written
IsNamedRoute(q) == IsGetHealth(q) \/ IsGetApiHealth(q)

\* C12: every request other than GET /health and GET /api/health is answered
\* 404 and no route handler runs for it.
C12_EverythingElse404 ==
  res.done /\ ~IsNamedRoute(req) => res.status = 404 /\ res.handler = "none"

\* the request gets as far as route dispatch
ReachesDispatch(q) == q.method # "OPTIONS" /\ ~RejectedBody(q)

\* GET or HEAD on /health or /api/health, in any letter case, with or without
\* a trailing slash
MatchesARoute(q) ==
  /\ q.method \in {"GET", "HEAD"}
  /\ LowerSegs(q.path.segs) \in {<<"health">>, <<"api", "health">>}

\* C12 as amended: a request that reaches route dispatch is answered 404 with
\* no handler run exactly when it is not GET or HEAD on /health or /api/health
\* (case-insensitive, trailing slash allowed), and 200 by a handler otherwise;
\* a request that does not reach dispatch (OPTIONS, answered 204 by the
\* cross-origin stage, or a rejected body, answered 4xx) runs no handler.
C12_FallThroughAtDispatch ==
  res.done =>
    /\ ReachesDispatch(req) /\ ~MatchesARoute(req) =>
          res.status = 404 /\ res.handler = "none"
    /\ ReachesDispatch(req) /\ MatchesARoute(req) =>
          res.status = 200 /\ res.handler # "none"
    /\ req.method = "OPTIONS" => res.status = 204 /\ res.handler = "none"
    /\ ~ReachesDispatch(req) => res.handler = "none"

\* POST /health with a body its parser accepts fell through to 404
C12_Witness ==
  /\ req.method = "POST"
  /\ req.path = Path(<<"health">>, FALSE)
  /\ req.contentType = "application/json" /\ req.body = "wellformed"
  /\ res.done /\ res.status = 404 /\ res.handler = "none"

\* security headers -> CORS -> compression -> request logging -> body
\* parsing -> route dispatch
StageOrder ==
  <<"helmet", "cors", "compression", "requestLogger", "bodyParsers", "routes">>

\* the stage that ends the response to q: the cross-origin stage for a
\* preflight, body parsing for a body it rejects, route dispatch otherwise
LastStage(q) ==
  IF q.method = "OPTIONS" THEN "cors"
  ELSE IF RejectedBody(q) THEN "bodyParsers"
  ELSE "routes"

\* C13: the stages a request has passed through are the fixed order up to
\* the stage that ended the response: each at most once, none skipped or
\* reordered, and none after the response has ended.
C13_FixedStageOrder ==
  res.done =>
    LET n == Len(res.stages)
    IN /\ n >= 1
       /\ res.stages = SubSeq(StageOrder, 1, n)
       /\ res.stages[n] = LastStage(req)
       /\ res.stages[n] # "routes" => res.handler = "none"
       /\ res.stages[n] = "cors" => res.logged = <<>> /\ ~res.parsed

\* a POST whose JSON body the parser rejected went through five stages and
\* never reached route dispatch
C13_Witness ==
  /\ req.method = "POST" /\ RejectedBody(req)
  /\ res.done
  /\ res.stages =
       <<"helmet", "cors", "compression", "requestLogger", "bodyParsers">>

OtherOrigin(q) == q.origin \notin {"none", CLIENT_URL}

Successful(r) == r.handler # "none" /\ r.status \in 200..299

WithoutOrigin(q) == [q EXCEPT !.origin = "none"]

ProcessedNormally(q, r) ==
  /\ r.done
  /\ r.status \in 200..499
  /\ r.stages[Len(r.stages)] = LastStage(q)

\* C15: a request whose Origin is the client URL gets a response with an
\* Access-Control-Allow-Origin header, and a request with no Origin header is
\* processed normally.
C15_AllowOriginHeader ==
  res.done =>
    /\ req.origin = CLIENT_URL =>
          "Access-Control-Allow-Origin" \in res.headers
    /\ req.origin = "none" => ProcessedNormally(req, res)

\* GET /api/health with the client URL as Origin carries the header, after a
\* clock tick
C15_Witness ==
  /\ req.method = "GET" /\ req.path = Path(<<"api", "health">>, FALSE)
  /\ req.origin = CLIENT_URL /\ req.contentType = "none"
  /\ res.done /\ "Access-Control-Allow-Origin" \in res.headers
  /\ now >= 1

AppWithoutLogger(q, t, up) ==
  LET r1 == Helmet(q, NewResponse)
      r2 == Then(r1, Cors(q, r1))
      r3 == Then(r2, Compression(q, r2))
      r5 == Then(r3, BodyParsers(q, r3))
  IN Then(r5, Routes(q, r5, t, up))

\* the request gets as far as the logger
ReachesLogger(q) == q.method # "OPTIONS"

\* C17: handling a request that reaches the logger writes exactly one line,
\* holding an ISO-8601 timestamp, the method and the path, and the request
\* goes on to the next stage; the status and the body of every response are
\* those of the pipeline without the logger.
C17_LoggerIsTransparent ==
  [][~res.done /\ res'.done =>
       LET a == AppWithoutLogger(req, now, uptime)
       IN /\ res'.status = a.status
          /\ res'.body = a.body
          /\ res'.handler = a.handler
          /\ ~ReachesLogger(req) => res'.logged = <<>>
          /\ ReachesLogger(req) =>
                /\ Len(res'.logged) = 1
                /\ DateParse(res'.logged[1].timestamp) = now
                /\ res'.logged[1].method = req.method
                /\ res'.logged[1].url = req.path
                /\ \E i \in 1..(Len(res'.stages) - 1) :
                      /\ res'.stages[i] = "requestLogger"
                      /\ res'.stages[i + 1] = "bodyParsers"]_vars

\* POST /does-not-exist, handled at time 1, left one line and got its 404
C17_Witness ==
  /\ req.method = "POST" /\ req.path = Path(<<"does-not-exist">>, FALSE)
  /\ res.done /\ res.status = 404
  /\ Len(res.logged) = 1
  /\ res.logged[1].timestamp = toISOString(1)

\* v is a base-10 integer literal: an optional sign, then digits only
IsIntegerLiteral(v) ==
  /\ v.defined
  /\ LET body == IF v.s # <<>> /\ Head(v.s) \in {"+", "-"}
                 THEN Tail(v.s) ELSE v.s
     IN body # <<>> /\ \A i \in 1..Len(body) : body[i] \in Digits

RECURSIVE Pow10(_)
Pow10(n) == IF n = 0 THEN 1 ELSE 10 * Pow10(n - 1)

\* the digits of body from position i on, each weighted by its place
RECURSIVE PlaceValue(_, _)
PlaceValue(body, i) ==
  IF i > Len(body) THEN 0
  ELSE DigitValue(body[i]) * Pow10(Len(body) - i) + PlaceValue(body, i + 1)

\* the integer a literal denotes
LiteralValue(v) ==
  IF Head(v.s) = "-" THEN -PlaceValue(Tail(v.s), 1)
  ELSE IF Head(v.s) = "+" THEN PlaceValue(Tail(v.s), 1)
  ELSE PlaceValue(v.s, 1)

\* field is resolved from key as the integer key's value parses to
ResolvesParsed(key, field) ==
  /\ IsIntegerLiteral(environ[key]) => field = LiteralValue(environ[key])
  /\ environ[key].defined /\ ~parseInt(environ[key].s).nan =>
        field = parseInt(environ[key].s).n

\* C18: a PORT value that parses as a base-10 integer resolves to that
\* integer as port, and a REQUEST_TIMEOUT value likewise as requestTimeout.
C18_ParsedIntegerIsUsed ==
  config.loaded =>
    /\ ResolvesParsed("PORT", config.port)
    /\ ResolvesParsed("REQUEST_TIMEOUT", config.requestTimeout)

\* PORT="4000" and REQUEST_TIMEOUT="5000" resolved to 4000 and 5000
C18_Witness ==
  /\ config.loaded
  /\ environ["PORT"] = Str(<<"4", "0", "0", "0">>)
  /\ environ["REQUEST_TIMEOUT"] = Str(<<"5", "0", "0", "0">>)
  /\ config.port = 4000
  /\ config.requestTimeout = 5000

\* C19: a PORT that is absent, empty or not a base-10 integer literal
\* resolves to the default port.
C19_NonNumericIsDefault ==
  config.loaded /\ ~IsIntegerLiteral(environ["PORT"]) =>
    config.port = DefaultPort

\* C20: whatever PORT is, the resolved port is an integer in 1..65535.
C20_PortInRange == config.loaded => config.port \in 1..65535

\* the key is set to a string that is not empty
Present(key) == environ[key].defined /\ Len(environ[key].s) >= 1

\* C21: NODE_ENV absent or empty resolves to "development"; isDev says that
\* nodeEnv is "development" and isProd that it is "production"; the two are
\* never both true and both are false for every other value.
C21_DevProdFlags ==
  config.loaded =>
    /\ ~Present("NODE_ENV") => config.nodeEnv = Development
    /\ config.isDev <=> config.nodeEnv = Development
    /\ config.isProd <=> config.nodeEnv = Production
    /\ ~(config.isDev /\ config.isProd)
    /\ config.nodeEnv \notin {Development, Production} =>
          ~config.isDev /\ ~config.isProd

\* NODE_ENV="Production", with a capital, resolved to neither flag
C21_Witness ==
  /\ config.loaded
  /\ environ["NODE_ENV"] =
       Str(<<"P", "r", "o", "d", "u", "c", "t", "i", "o", "n">>)
  /\ config.nodeEnv = environ["NODE_ENV"].s
  /\ ~config.isDev /\ ~config.isProd

\* the value of key when present, else the default
ValueOr(key, defaultValue) ==
  IF Present(key) THEN environ[key].s ELSE defaultValue

\* C22: nodeEnv and logLevel are the values of NODE_ENV and LOG_LEVEL as
\* they stand when present and non-empty, else "development" and "info";
\* clientUrl is "http://localhost:" followed by the value of VITE_DEV_PORT
\* when present and non-empty, else by "5173".
C22_StringsVerbatimOrDefault ==
  config.loaded =>
    /\ config.nodeEnv = ValueOr("NODE_ENV", Development)
    /\ config.logLevel = ValueOr("LOG_LEVEL", Info)
    /\ config.clientUrl =
         <<"h", "t", "t", "p", ":", "/", "/",
           "l", "o", "c", "a", "l", "h", "o", "s", "t", ":">>
           \o ValueOr("VITE_DEV_PORT", <<"5", "1", "7", "3">>)

\* VITE_DEV_PORT="5200" and LOG_LEVEL="debug" with NODE_ENV=" x" resolved to
\* the URL of port 5200, "debug" and " x"
C22_Witness ==
  /\ config.loaded
  /\ environ["NODE_ENV"] = Str(<<" ", "x">>)
  /\ environ["VITE_DEV_PORT"] = Str(<<"5", "2", "0", "0">>)
  /\ config.nodeEnv = <<" ", "x">>
  /\ config.logLevel = <<"d", "e", "b", "u", "g">>
  /\ config.clientUrl = LocalhostPrefix \o <<"5", "2", "0", "0">>

\* C23: a loaded config stays as it is, and so does the PORT index.ts took
\* from it: a change of the environment leaves both alone, and the config a
\* later evaluation of the module builds is resolved from the environment of
\* that moment.
C23_ResolvedOnce ==
  [][/\ config.loaded /\ config'.loaded => config' = config
     /\ PORT.set /\ PORT'.set => PORT' = PORT
     /\ environ' # environ => config' = config /\ PORT' = PORT
     /\ ~config.loaded /\ config'.loaded => config' = serverConfig(environ)
     /\ ~PORT.set /\ PORT'.set => PORT' = Evaluated(config'.port)]_vars

\* PORT was set to "4000" after index.ts was evaluated with PORT unset: the
\* config and the constant still hold 3000
C23_Witness ==
  /\ config.loaded /\ PORT.set
  /\ environ["PORT"] = Str(<<"4", "0", "0", "0">>)
  /\ config.port = DefaultPort
  /\ PORT.n = DefaultPort
  /\ config # serverConfig(environ)

\* C24: the counter shown is the number of clicks of this mount: 0 when the
\* page mounts, never less within a mount, and nothing of an earlier mount.
C24_CounterCountsClicks ==
  /\ [](page.mounted => page.count = seen.clicks)
  /\ [][/\ ~page.mounted /\ page'.mounted => page'.count = 0
        /\ page.mounted /\ page'.mounted => page'.count >= page.count]_vars

\* the second mount shows 2 after two clicks
C24_Witness ==
  /\ mounts = MaxMounts
  /\ page.mounted
  /\ seen.clicks = 2
  /\ page.count = 2

\* the text of the status panel
PanelText == StatusChild(page.message).s

FetchFailed(o) == o.kind \in {"networkError", "notJson"}

\* C25: after a failed fetch the panel shows "Server not connected" and the
\* page stands; after a fetch that succeeded it shows the message field of
\* the JSON response.
C25_FallbackOrMessage ==
  seen.settled >= 1 =>
    /\ ~page.crashed
    /\ page.mounted =>
          IF FetchFailed(seen.last)
          THEN PanelText = "Server not connected"
          ELSE /\ ~seen.last.data.isNull
               /\ seen.last.data.message.kind \in {"string", "number"}
               /\ PanelText = seen.last.data.message.s

\* C26: a mounted page has issued exactly one request.
C26_OneRequestPerMount == page.mounted => seen.issued = 1

\* C26 as amended: a mounted page has issued one request, or two when it is
\* rendered inside StrictMode in a development build, all of them when it
\* mounted: no click and no fetch result issues another.
C26_RequestsOnlyOnMount ==
  /\ [](page.mounted => seen.issued = IF strict THEN 2 ELSE 1)
  /\ [][page.mounted /\ page'.mounted =>
          /\ seen'.issued = seen.issued
          /\ pending'[mounts] <= pending[mounts]]_vars

\* a page inside StrictMode after a click and a fetch result: two requests
C26_Witness ==
  /\ strict /\ page.mounted
  /\ seen.clicks >= 1 /\ seen.settled >= 1
  /\ seen.issued = 2

\* C27: once a fetch of the page has settled, the panel shows the server's
\* message or "Server not connected", not "Loading...".
C27_NoLoadingAfterSettle ==
  page.mounted /\ seen.settled >= 1 => PanelText # "Loading..."

\* C28: a delivered SIGTERM or SIGINT that finds a handler makes exactly one
\* gracefulShutdown call, however often startServer was called before; no
\* signal has more than one handler.
C28_OneShutdownPerSignal ==
  [][lastCall'.op = "signal" /\ lastCall'.result = "void" =>
       /\ Count(log', "shutdown") = Count(log, "shutdown") + 1
       /\ Len(handlers[lastCall'.arg]) = 1]_vars

\* C29: the closed line is written only for a server that reached LISTENING
\* (its banner is out), and never by a close callback that was handed an
\* error.
C29_ClosedOnlyAfterListening ==
  /\ log[ClosedLine("ERR_SERVER_NOT_RUNNING")] = 0
  /\ (ClosedLines >= 1 => Banners >= 1)

\* C30: for every value of VITE_DEV_PORT the origin the server allows,
\* config.server.clientUrl, is the origin the Vite dev server is served from,
\* http://localhost:<devPort>.
C30_ClientUrlIsViteOrigin ==
  config.loaded => config.clientUrl = ViteOrigin(environ)

====
